---- MODULE Spec2Model ----
(***************************************************************************)
(* Model of the two stateful services of notions-words:                    *)
(*   - NotionSyncService   (src/src/features/notion-sync/model.ts)         *)
(*   - TranslationService  (src/unnamed/part_006) with its                 *)
(*     TranslationServiceManager (src/src/shared/api/translation/index.ts) *)
(* The host is single threaded: one action is one run-to-completion        *)
(* stretch of code between two suspension points (await of an external     *)
(* call).                                                                 *)
(***************************************************************************)
EXTENDS Integers, Sequences, FiniteSets, TLC

(***************************************************************************)
(* Bounds of the exploration.                                              *)
(***************************************************************************)
\* number of records createNotionRecord may create in one behaviour
MaxRecords == 2
\* largest number of items handed to one syncBatch call
MaxBatch == 2
\* number of retryFailedItems calls that reset at least one counter
MaxRearm == 1
\* number of callbacks subscribed to one service in one behaviour
MaxSubscribers == 3
\* number of words of the one syncBatch call of SpecRetry
MaxQueued == 3

(***************************************************************************)
(* Program constants.                                                      *)
(***************************************************************************)
\* addToQueue: maxRetries: 3
MaxRetries == 3

\* NotionRecordStatus
PENDING == "pending"
SYNCING == "syncing"
SYNCED == "synced"
FAILED == "failed"

\* absent notionPageId; the k-th createPage call, when it resolves, returns
\* the page id k
NoPage == 0
\* absent syncError / error; the k-th createPage call, when it rejects, throws
\* an Error whose message is numbered k
NoError == 0
\* message of the Error processSyncItem throws without a client
NoClientError == -1

VARIABLES
  client,       \* TRUE iff this.client is not null
  syncInterval, \* TRUE iff the auto-sync timer is armed
  syncQueue,    \* this.syncQueue: sequence of SyncQueueItem
  isProcessing, \* this.isProcessing
  records,      \* id -> the NotionRecord currently referenced as item.record
  inflight,     \* suspended processQueue loops: the item each one awaits
  nextId,       \* number of records created so far
  rearms,       \* number of retryFailedItems calls that reset a counter
  rearmed,      \* ids of the records whose retryCount was reset
  dropped,      \* ids of the records removed by clearQueue
  trace,        \* observable effects in order: events, create calls, enqueues
  listeners,    \* this.listeners: the subscribed callbacks, in array order
  nSubs         \* number of callbacks passed to onSync so far

VARIABLES
  now,          \* Date.now()
  ticks,        \* number of times the clock has advanced
  apis,         \* serviceManager.apis: the registered providers, in Map order
  cache,        \* this.cache: the entries, in Map order
  calls,        \* the translateWord calls suspended on a provider
  nCalls,       \* number of translateWord calls made so far
  last,         \* the translateWord call that returned last
  translationListeners, \* TranslationService.listeners, in array order
  nTranslationSubs,     \* number of callbacks passed to onTranslation so far
  batch         \* the translateBatch call in progress or returned last

syncVars == <<client, syncInterval, syncQueue, isProcessing, records, inflight,
              nextId, rearms, rearmed, dropped, trace, listeners, nSubs>>

transVars == <<now, ticks, apis, cache, calls, nCalls, last,
               translationListeners, nTranslationSubs, batch>>

vars == <<client, syncInterval, syncQueue, isProcessing, records, inflight,
          nextId, rearms, rearmed, dropped, trace, listeners, nSubs,
          now, ticks, apis, cache, calls, nCalls, last,
          translationListeners, nTranslationSubs, batch>>

(***************************************************************************)
(* entities/notion-record                                                  *)
(***************************************************************************)
NoOptions == [notionPageId |-> NoPage, syncError |-> NoError]

createNotionRecord(id) ==
  [id |-> id, status |-> PENDING, notionPageId |-> NoPage, syncError |-> NoError]

updateRecordStatus(record, status, options) ==
  [record EXCEPT !.status = status,
                 !.notionPageId =
                    IF options.notionPageId # NoPage THEN options.notionPageId ELSE @,
                 !.syncError =
                    IF options.syncError # NoError THEN options.syncError ELSE @]

(***************************************************************************)
(* The callbacks of onSync / onTranslation.  A callback is [id, does]: what *)
(* it does when it is invoked is to return ("quiet"), to throw ("throws"), *)
(* to call the unsubscribe function onSync returned for it ("leaves"), or  *)
(* to subscribe one more quiet callback ("invites").                       *)
(***************************************************************************)
Callbacks == {"quiet", "throws", "leaves", "invites"}

\* the unsubscribe function: splice at indexOf(callback), if it is there
unsubscribe(ls, callback) ==
  IF \E i \in 1..Len(ls) : ls[i] = callback
  THEN LET i == CHOOSE j \in 1..Len(ls) :
                  ls[j] = callback /\ \A k \in 1..(j - 1) : ls[k] # callback
       IN SubSeq(ls, 1, i - 1) \o SubSeq(ls, i + 1, Len(ls))
  ELSE ls

\* one invocation of a callback, on st = [ls, subs, invoked]
invoke(st, callback) ==
  LET st1 == [st EXCEPT !.invoked = Append(@, callback)]
  IN CASE callback.does = "leaves" ->
            [st1 EXCEPT !.ls = unsubscribe(@, callback)]
       [] callback.does = "invites" /\ st.subs < MaxSubscribers ->
            [st1 EXCEPT !.ls = Append(@, [id |-> st.subs + 1, does |-> "quiet"]),
                        !.subs = @ + 1]
       [] OTHER -> st1

\* this.listeners.forEach(callback => { try { callback(event) } catch ... }):
\* Array.prototype.forEach visits the indices below the length the array had
\* at the start that are still in the array when their turn comes
RECURSIVE forEach(_, _, _)
forEach(st, k, len) ==
  IF k > len \/ k > Len(st.ls) THEN st
  ELSE forEach(invoke(st, st.ls[k]), k + 1, len)

(***************************************************************************)
(* NotionSyncService: the synchronous pieces, as functions of the service  *)
(* state s = [q, proc, infl, recs, tr, ls, subs].                          *)
(***************************************************************************)
SyncState ==
  [q |-> syncQueue, proc |-> isProcessing, infl |-> inflight,
   recs |-> records, tr |-> trace, ls |-> listeners, subs |-> nSubs]

\* an effect in the trace; for an event, before and invoked are the
\* callbacks subscribed when notifyListeners began and those it invoked
Entry(type, record, error) ==
  [type |-> type, id |-> record.id, status |-> record.status,
   notionPageId |-> record.notionPageId, error |-> error,
   before |-> <<>>, invoked |-> <<>>]

notifyListeners(s, type, record, error) ==
  LET r == forEach([ls |-> s.ls, subs |-> s.subs, invoked |-> <<>>],
                   1, Len(s.ls))
  IN [s EXCEPT !.ls = r.ls,
               !.subs = r.subs,
               !.tr = Append(@, [Entry(type, record, error) EXCEPT
                                   !.before = s.ls,
                                   !.invoked = r.invoked])]

addToQueue(s, record) ==
  [s EXCEPT !.q = Append(@, [id |-> record.id, retryCount |-> 0,
                             maxRetries |-> MaxRetries]),
            !.recs = (record.id :> record) @@ @,
            !.tr = Append(@, Entry("enqueued", record, NoError))]

\* processSyncItem up to its await of client.createPage
processSyncItemBegin(s, item) ==
  IF ~client
  THEN [s EXCEPT !.infl = @ \cup {[item |-> item, call |-> "none"]}]
  ELSE LET record == s.recs[item.id]
           s1 == notifyListeners(s, "sync_started", record, NoError)
           s2 == [s1 EXCEPT !.recs[item.id] =
                              updateRecordStatus(record, SYNCING, NoOptions)]
           s3 == [s2 EXCEPT !.tr = Append(@, Entry("create", record, NoError))]
       IN [s3 EXCEPT !.infl = @ \cup {[item |-> item, call |-> "create"]}]

\* the loop reading the head of the list without removing it
drain_Peek(s) ==
  IF Len(s.q) > 0
  THEN processSyncItemBegin(s, Head(s.q))
  ELSE [s EXCEPT !.proc = FALSE]

\* the loop ending with one item left (while length > 1)
drain_LeavesLast(s) ==
  IF Len(s.q) > 1
  THEN processSyncItemBegin([s EXCEPT !.q = Tail(@)], Head(s.q))
  ELSE [s EXCEPT !.proc = FALSE]

\* the loop leaving isProcessing set when the list is empty
drain_Busy(s) ==
  IF Len(s.q) > 0
  THEN processSyncItemBegin([s EXCEPT !.q = Tail(@)], Head(s.q))
  ELSE s

\* one turn of the while loop of processQueue, up to the next await
drain(s) ==
  IF Len(s.q) > 0
  THEN processSyncItemBegin([s EXCEPT !.q = Tail(@)], Head(s.q))
  ELSE [s EXCEPT !.proc = FALSE]

\* processQueue without the test of isProcessing
processQueue_Reentrant(s) ==
  IF Len(s.q) = 0 THEN s ELSE drain([s EXCEPT !.proc = TRUE])

\* processSyncItem not recording the outcome of a successful create
processSyncItemResolved_Unmarked(s, item, pageId) ==
  notifyListeners(s, "sync_completed", s.recs[item.id], NoError)

processQueue(s) ==
  IF s.proc \/ Len(s.q) = 0 THEN s ELSE drain([s EXCEPT !.proc = TRUE])

\* processSyncItem after createPage resolved with pageId
processSyncItemResolved(s, item, pageId) ==
  LET s1 == [s EXCEPT !.recs[item.id] =
               updateRecordStatus(@, SYNCED,
                                  [notionPageId |-> pageId, syncError |-> NoError])]
  IN notifyListeners(s1, "sync_completed", s1.recs[item.id], NoError)

\* processSyncItem after createPage rejected with an error of message msg
processSyncItemRejected(s, item, msg) ==
  [s EXCEPT !.recs[item.id] =
     updateRecordStatus(@, FAILED, [notionPageId |-> NoPage, syncError |-> msg])]

\* the catch block with the retry test off by one (retryCount <= maxRetries)
processQueueCatch_NoBudget(s, item, msg) ==
  LET s0 == [s EXCEPT !.tr = Append(@, Entry("caught", s.recs[item.id], msg))]
  IN IF item.retryCount <= item.maxRetries
     THEN [s0 EXCEPT !.q = Append(@, [item EXCEPT !.retryCount = @ + 1])]
     ELSE LET s1 == [s0 EXCEPT !.recs[item.id] =
                       updateRecordStatus(@, FAILED,
                                          [notionPageId |-> NoPage, syncError |-> msg])]
          IN notifyListeners(s1, "sync_failed", s1.recs[item.id], msg)

\* the catch block putting the failed item back at the head of the list
processQueueCatch_Unshift(s, item, msg) ==
  LET s0 == [s EXCEPT !.tr = Append(@, Entry("caught", s.recs[item.id], msg))]
  IN IF item.retryCount < item.maxRetries
     THEN [s0 EXCEPT !.q = <<[item EXCEPT !.retryCount = @ + 1]>> \o @]
     ELSE LET s1 == [s0 EXCEPT !.recs[item.id] =
                       updateRecordStatus(@, FAILED,
                                          [notionPageId |-> NoPage, syncError |-> msg])]
          IN notifyListeners(s1, "sync_failed", s1.recs[item.id], msg)

\* the catch block giving an item up when the list it would rejoin is empty
processQueueCatch_Forgets(s, item, msg) ==
  LET s0 == [s EXCEPT !.tr = Append(@, Entry("caught", s.recs[item.id], msg))]
  IN IF item.retryCount < item.maxRetries
     THEN IF Len(s.q) = 0 THEN s0
          ELSE [s0 EXCEPT !.q = Append(@, [item EXCEPT !.retryCount = @ + 1])]
     ELSE LET s1 == [s0 EXCEPT !.recs[item.id] =
                       updateRecordStatus(@, FAILED,
                                          [notionPageId |-> NoPage, syncError |-> msg])]
          IN notifyListeners(s1, "sync_failed", s1.recs[item.id], msg)

\* the catch block reporting every failed attempt as sync_failed
processQueueCatch_Eager(s, item, msg) ==
  LET s0 == [s EXCEPT !.tr = Append(@, Entry("caught", s.recs[item.id], msg))]
      s1 == [s0 EXCEPT !.recs[item.id] =
               updateRecordStatus(@, FAILED,
                                  [notionPageId |-> NoPage, syncError |-> msg])]
      s2 == notifyListeners(s1, "sync_failed", s1.recs[item.id], msg)
  IN IF item.retryCount < item.maxRetries
     THEN [s2 EXCEPT !.q = Append(@, [item EXCEPT !.retryCount = @ + 1])]
     ELSE s2

\* the catch block of processQueue
\* ("caught" is the console.error of the catch block)
processQueueCatch(s, item, msg) ==
  LET s0 == [s EXCEPT !.tr = Append(@, Entry("caught", s.recs[item.id], msg))]
  IN IF item.retryCount < item.maxRetries
     THEN [s0 EXCEPT !.q = Append(@, [item EXCEPT !.retryCount = @ + 1])]
     ELSE LET s1 == [s0 EXCEPT !.recs[item.id] =
                       updateRecordStatus(@, FAILED,
                                          [notionPageId |-> NoPage, syncError |-> msg])]
          IN notifyListeners(s1, "sync_failed", s1.recs[item.id], msg)

\* return of the record that is the queue item's current record
returnRecord_Current(s, record) ==
  [s EXCEPT !.tr = Append(@, Entry("returned", s.recs[record.id], NoError))]

\* return record: the promise of syncRecord / syncBatch resolves with the
\* object createNotionRecord built
returnRecord(s, record) ==
  [s EXCEPT !.tr = Append(@, Entry("returned", record, NoError))]

Commit(s) ==
  /\ syncQueue' = s.q
  /\ isProcessing' = s.proc
  /\ inflight' = s.infl
  /\ records' = s.recs
  /\ trace' = s.tr
  /\ listeners' = s.ls
  /\ nSubs' = s.subs

(***************************************************************************)
(* NotionSyncService: the operations.                                      *)
(***************************************************************************)
\* initialize(config) with config.autoSync set and a connection test that
\* passes: the client is created and the auto-sync timer is started.  (Without
\* autoSync the service behaves the same, less the steps of TimerTick.)
Initialize ==
  /\ client' = TRUE
  /\ syncInterval' = TRUE
  /\ UNCHANGED <<syncQueue, isProcessing, records, inflight, nextId, rearms,
                 rearmed, dropped, trace, listeners, nSubs>>
  /\ UNCHANGED transVars

SyncRecord ==
  /\ client
  /\ nextId < MaxRecords
  /\ nextId' = nextId + 1
  /\ LET record == createNotionRecord(nextId + 1)
     IN Commit(returnRecord(processQueue(addToQueue(SyncState, record)), record))
  /\ UNCHANGED <<client, syncInterval, rearms, rearmed, dropped>>
  /\ UNCHANGED transVars

RECURSIVE addAll(_, _, _)
addAll(s, first, n) ==
  IF n = 0 THEN s
  ELSE addAll(addToQueue(s, createNotionRecord(first)), first + 1, n - 1)

RECURSIVE returnAll(_, _, _)
returnAll(s, first, n) ==
  IF n = 0 THEN s
  ELSE returnAll(returnRecord(s, createNotionRecord(first)), first + 1, n - 1)

\* syncBatch(words) with n words
SyncBatchOf(n) ==
  /\ nextId' = nextId + n
  /\ Commit(returnAll(processQueue(addAll(SyncState, nextId + 1, n)),
                       nextId + 1, n))
  /\ UNCHANGED <<client, syncInterval, rearms, rearmed, dropped>>
  /\ UNCHANGED transVars

SyncBatch(n) == nextId + n <= MaxRecords /\ SyncBatchOf(n)

\* clearQueue leaving the item at the head of the list
ClearQueue_SparesHead ==
  /\ syncQueue' = IF Len(syncQueue) > 0 THEN <<Head(syncQueue)>> ELSE <<>>
  /\ dropped' = dropped \cup {syncQueue[i].id : i \in 1..Len(syncQueue)}
  /\ UNCHANGED <<client, syncInterval, isProcessing, records, inflight, nextId,
                 rearms, rearmed, trace, listeners, nSubs>>
  /\ UNCHANGED transVars

ClearQueue ==
  /\ syncQueue' = <<>>
  /\ dropped' = dropped \cup {syncQueue[i].id : i \in 1..Len(syncQueue)}
  /\ UNCHANGED <<client, syncInterval, isProcessing, records, inflight, nextId,
                 rearms, rearmed, trace, listeners, nSubs>>
  /\ UNCHANGED transVars

\* retryFailedItems resetting one failure early (retryCount >= maxRetries - 1)
retryFailedItems_Early(q) ==
  [i \in 1..Len(q) |->
     IF q[i].retryCount >= q[i].maxRetries - 1
     THEN [q[i] EXCEPT !.retryCount = 0] ELSE q[i]]

retryFailedItems(q) ==
  [i \in 1..Len(q) |->
     IF q[i].retryCount >= q[i].maxRetries
     THEN [q[i] EXCEPT !.retryCount = 0] ELSE q[i]]

RetryFailedItems ==
  LET q == retryFailedItems(syncQueue)
      hit == {syncQueue[i].id : i \in {j \in 1..Len(syncQueue) : q[j] # syncQueue[j]}}
  IN /\ hit # {} => rearms < MaxRearm
     /\ rearms' = IF hit # {} THEN rearms + 1 ELSE rearms
     /\ rearmed' = rearmed \cup hit
     /\ Commit(processQueue([SyncState EXCEPT !.q = q]))
     /\ UNCHANGED <<client, syncInterval, nextId, dropped>>
     /\ UNCHANGED transVars

\* the setInterval callback of startAutoSync
TimerTick ==
  /\ syncInterval
  /\ IF ~isProcessing /\ Len(syncQueue) > 0
     THEN Commit(processQueue(SyncState))
     ELSE UNCHANGED <<syncQueue, isProcessing, inflight, records, trace,
                      listeners, nSubs>>
  /\ UNCHANGED <<client, syncInterval, nextId, rearms, rearmed, dropped>>
  /\ UNCHANGED transVars

\* onSync(callback)
OnSync(does) ==
  /\ nSubs < MaxSubscribers
  /\ listeners' = Append(listeners, [id |-> nSubs + 1, does |-> does])
  /\ nSubs' = nSubs + 1
  /\ UNCHANGED <<client, syncInterval, syncQueue, isProcessing, records,
                 inflight, nextId, rearms, rearmed, dropped, trace>>
  /\ UNCHANGED transVars

\* a call, between two events, of the function onSync returned
Unsubscribe(callback) ==
  /\ listeners' = unsubscribe(listeners, callback)
  /\ UNCHANGED <<client, syncInterval, syncQueue, isProcessing, records,
                 inflight, nextId, rearms, rearmed, dropped, trace, nSubs>>
  /\ UNCHANGED transVars

\* the number of the createPage call that is in flight: the calls are numbered
\* in the order they are made, and the number names the call's page or error
CallOf(tr) == Cardinality({i \in 1..Len(tr) : tr[i].type = "create"})

\* client.createPage resolves: processSyncItem finishes, the loop goes on
CreateResolves(f) ==
  /\ f \in inflight
  /\ f.call = "create"
  /\ LET pageId == CallOf(trace)
         s0 == [SyncState EXCEPT !.infl = @ \ {f}]
     IN Commit(drain(processSyncItemResolved(s0, f.item, pageId)))
  /\ UNCHANGED <<client, syncInterval, nextId, rearms, rearmed, dropped>>
  /\ UNCHANGED transVars

\* client.createPage rejects: processSyncItem rethrows, processQueue catches
CreateRejects(f) ==
  /\ f \in inflight
  /\ f.call = "create"
  /\ LET msg == CallOf(trace)
         s0 == [SyncState EXCEPT !.infl = @ \ {f}]
     IN Commit(drain(processQueueCatch(
                       processSyncItemRejected(s0, f.item, msg), f.item, msg)))
  /\ UNCHANGED <<client, syncInterval, nextId, rearms, rearmed, dropped>>
  /\ UNCHANGED transVars

\* processSyncItem threw for lack of a client: processQueue catches
NoClientRejects(f) ==
  /\ f \in inflight
  /\ f.call = "none"
  /\ LET s0 == [SyncState EXCEPT !.infl = @ \ {f}]
     IN Commit(drain(processQueueCatch(s0, f.item, NoClientError)))
  /\ UNCHANGED <<client, syncInterval, nextId, rearms, rearmed, dropped>>
  /\ UNCHANGED transVars

SyncInit ==
  /\ client = FALSE
  /\ syncInterval = FALSE
  /\ syncQueue = <<>>
  /\ isProcessing = FALSE
  /\ records = <<>>
  /\ inflight = {}
  /\ nextId = 0
  /\ rearms = 0
  /\ rearmed = {}
  /\ dropped = {}
  /\ trace = <<>>
  /\ listeners = <<>>
  /\ nSubs = 0

(***************************************************************************)
(* Strings of the translation service are sequences of characters, so that *)
(* toLowerCase and the concatenation of getCacheKey are computed.          *)
(***************************************************************************)
AUTO == <<"a", "u", "t", "o">>
EN == <<"e", "n">>
FR == <<"f", "r">>
ZH_CN == <<"z", "h", "-", "C", "N">>
\* language a provider's detectLanguage answers
DetectedLanguages == {EN}

\* String.prototype.toLowerCase on the characters in use
lowerChar(ch) ==
  CASE ch = "C" -> "c"
    [] ch = "H" -> "h"
    [] ch = "N" -> "n"
    [] OTHER -> ch

toLowerCase(str) == [i \in 1..Len(str) |-> lowerChar(str[i])]

\* TranslationProvider values in use
GOOGLE == "google"
DEEPL == "deepl"
Providers == {GOOGLE, DEEPL}
\* preferredProvider not given
NoProvider == "none"

\* maxCacheSize, scaled down from 1000 entries
MaxCacheSize == 2
\* cacheExpiryTime
CacheExpiryTime == 24 * 60 * 60 * 1000
\* number of translateWord calls in one behaviour
MaxCalls == 4
\* number of times the clock advances in one behaviour
MaxTicks == 1
\* number of translateWord calls suspended at the same time
MaxOverlap == 2
\* longest words array passed to translateBatch
MaxWords == 3

\* message of the Error translateText throws when no provider succeeded
AllUnavailable == "all_unavailable"
NoMessage == "none"
NoTranslation ==
  [id |-> 0, provider |-> NoProvider, text |-> <<>>, language |-> <<>>]

\* (word, targetLanguage) arguments of translateWord
Requests ==
  {[text |-> <<"H", "i">>, language |-> EN, target |-> ZH_CN],
   [text |-> <<"h", "i">>, language |-> EN, target |-> ZH_CN],
   [text |-> <<"H", "i">>, language |-> AUTO, target |-> ZH_CN],
   [text |-> <<"H", "i">>, language |-> EN, target |-> FR],
   [text |-> <<"H", "i">>, language |-> EN, target |-> <<"z", "h", "-", "c", "n">>],
   [text |-> <<"y", "o">>, language |-> EN, target |-> <<>>]}

\* the registries translateText is checked against: every Map of providers
Registries ==
  {<<>>, <<GOOGLE>>, <<DEEPL>>, <<GOOGLE, DEEPL>>, <<DEEPL, GOOGLE>>}

(***************************************************************************)
(* TranslationService: the cache.                                          *)
(***************************************************************************)
\* getCacheKey joining its arguments as they are
getCacheKey_Verbatim(text, sourceLanguage, targetLanguage) ==
  text \o <<"|">> \o sourceLanguage \o <<"|">> \o targetLanguage

getCacheKey(text, sourceLanguage, targetLanguage) ==
  toLowerCase(text \o <<"|">> \o sourceLanguage \o <<"|">> \o targetLanguage)

\* position of the key in the Map, 0 when absent
IndexOf(c, key) ==
  IF \E i \in 1..Len(c) : c[i].key = key
  THEN CHOOSE i \in 1..Len(c) : c[i].key = key
  ELSE 0

\* Map.delete
Delete(c, i) == SubSeq(c, 1, i - 1) \o SubSeq(c, i + 1, Len(c))

\* getFromCache leaving an expired entry in the Map
getFromCache_NoDelete(c, key, time) ==
  LET i == IndexOf(c, key)
  IN IF i = 0
     THEN [cache |-> c, hit |-> FALSE, translation |-> NoTranslation]
     ELSE IF time - c[i].timestamp > CacheExpiryTime
          THEN [cache |-> c, hit |-> FALSE, translation |-> NoTranslation]
          ELSE [cache |-> [c EXCEPT ![i].accessCount = @ + 1], hit |-> TRUE,
                translation |-> c[i].translation]

\* getFromCache returning the translation without counting the access
getFromCache_NoCount(c, key, time) ==
  LET i == IndexOf(c, key)
  IN IF i = 0
     THEN [cache |-> c, hit |-> FALSE, translation |-> NoTranslation]
     ELSE IF time - c[i].timestamp > CacheExpiryTime
          THEN [cache |-> Delete(c, i), hit |-> FALSE,
                translation |-> NoTranslation]
          ELSE [cache |-> c, hit |-> TRUE, translation |-> c[i].translation]

\* getFromCache: the cache afterwards and the translation found
getFromCache(c, key, time) ==
  LET i == IndexOf(c, key)
  IN IF i = 0
     THEN [cache |-> c, hit |-> FALSE, translation |-> NoTranslation]
     ELSE IF time - c[i].timestamp > CacheExpiryTime
          THEN [cache |-> Delete(c, i), hit |-> FALSE,
                translation |-> NoTranslation]
          ELSE [cache |-> [c EXCEPT ![i].accessCount = @ + 1], hit |-> TRUE,
                translation |-> c[i].translation]

\* the comparator putting the newer of two equally used entries first
Compare_NewestFirst(a, b) ==
  IF a.accessCount # b.accessCount
  THEN a.accessCount - b.accessCount
  ELSE b.timestamp - a.timestamp

\* the comparator of evictLeastUsedItems
Compare(a, b) ==
  IF a.accessCount # b.accessCount
  THEN a.accessCount - b.accessCount
  ELSE a.timestamp - b.timestamp

\* position (from 0) of entry i after the stable sort of the entries
SortRank(c, i) ==
  Cardinality({j \in 1..Len(c) :
                 \/ Compare(c[j], c[i]) < 0
                 \/ Compare(c[j], c[i]) = 0 /\ j < i})

\* Math.ceil(entries.length * 0.1)
ToDelete(n) == (n + 9) \div 10

Keep(c, S) == 
  LET F[i \in 0..Len(c)] ==
        IF i = 0 THEN <<>>
        ELSE IF i \in S THEN Append(F[i - 1], c[i]) ELSE F[i - 1]
  IN F[Len(c)]

evictLeastUsedItems(c) ==
  Keep(c, {i \in 1..Len(c) : SortRank(c, i) >= ToDelete(Len(c))})

\* Map.set keeping the value a key already has
MapSet_KeepFirst(c, key, item) ==
  LET i == IndexOf(c, key)
      entry == [key |-> key, translation |-> item.translation,
                timestamp |-> item.timestamp, accessCount |-> item.accessCount]
  IN IF i = 0 THEN Append(c, entry) ELSE c

\* Map.set
MapSet(c, key, item) ==
  LET i == IndexOf(c, key)
      entry == [key |-> key, translation |-> item.translation,
                timestamp |-> item.timestamp, accessCount |-> item.accessCount]
  IN IF i = 0 THEN Append(c, entry) ELSE [c EXCEPT ![i] = entry]

\* addToCache sweeping before every insertion
addToCache_Always(c, key, translation, time) ==
  MapSet(evictLeastUsedItems(c), key,
         [translation |-> translation, timestamp |-> time, accessCount |-> 1])

\* addToCache evicting only above the capacity (size > maxCacheSize)
addToCache_Late(c, key, translation, time) ==
  LET c1 == IF Len(c) > MaxCacheSize THEN evictLeastUsedItems(c) ELSE c
  IN MapSet(c1, key, [translation |-> translation, timestamp |-> time,
                      accessCount |-> 1])

addToCache(c, key, translation, time) ==
  LET c1 == IF Len(c) >= MaxCacheSize THEN evictLeastUsedItems(c) ELSE c
  IN MapSet(c1, key, [translation |-> translation, timestamp |-> time,
                      accessCount |-> 1])

(***************************************************************************)
(* TranslationServiceManager: translateText and detectLanguage, as the     *)
(* progress of the translateWord call cl that awaits them.                 *)
(***************************************************************************)
Has(p) == \E i \in 1..Len(apis) : apis[i] = p

Invoke(cl, pc, i, kind, p) ==
  [cl EXCEPT !.pc = pc, !.idx = i, !.tried = Append(@, <<kind, p>>)]

\* the for loop going through the Map from its last entry to its first
loopFrom_Backwards(cl, i) ==
  IF i <= Len(apis)
  THEN Invoke(cl, "loop", i, "translate", apis[Len(apis) + 1 - i])
  ELSE [cl EXCEPT !.pc = "rejected", !.error = AllUnavailable]

\* the for loop falling off its end without the throw
loopFrom_Silent(cl, i) ==
  IF i <= Len(apis)
  THEN Invoke(cl, "loop", i, "translate", apis[i])
  ELSE [cl EXCEPT !.pc = "resolved"]

\* the for loop of translateText from the i-th registered provider on
loopFrom(cl, i) ==
  IF i <= Len(apis)
  THEN Invoke(cl, "loop", i, "translate", apis[i])
  ELSE [cl EXCEPT !.pc = "rejected", !.error = AllUnavailable]

translateText(cl) ==
  IF cl.preferred # NoProvider /\ Has(cl.preferred)
  THEN Invoke(cl, "preferred", 0, "translate", cl.preferred)
  ELSE loopFrom(cl, 1)

\* detectLanguage throwing when no provider answered
detectFrom_Throws(cl, i) ==
  IF i <= Len(apis)
  THEN Invoke(cl, "detect", i, "detect", apis[i])
  ELSE [cl EXCEPT !.pc = "rejected", !.error = AllUnavailable]

\* the for loop of detectLanguage from the i-th registered provider on,
\* followed by the rest of translateWord
detectFrom(cl, i) ==
  IF i <= Len(apis)
  THEN Invoke(cl, "detect", i, "detect", apis[i])
  ELSE translateText([cl EXCEPT !.lang = AUTO])

(***************************************************************************)
(* TranslationService.translateWord                                        *)
(***************************************************************************)
DefaultTargetLanguage == ZH_CN

\* an event as a call records it; before and invoked are the callbacks
\* subscribed when notifyListeners began and those it invoked
Event(type, translation, error) ==
  [type |-> type, translation |-> translation, error |-> error,
   before |-> <<>>, invoked |-> <<>>]

NoCall ==
  [id |-> 0, word |-> [text |-> <<>>, language |-> <<>>], target |-> <<>>,
   preferred |-> NoProvider, key |-> <<>>, pc |-> "none", idx |-> 0,
   lang |-> <<>>, tried |-> <<>>, events |-> <<>>,
   result |-> NoTranslation, error |-> NoMessage,
   lookup |-> "none", swept |-> <<>>, seen |-> <<>>, open |-> {},
   replaced |-> 0]

\* no translateBatch call made yet
NoBatch ==
  [words |-> <<>>, target |-> <<>>, pos |-> 0, translations |-> <<>>,
   awaiting |-> 0, pc |-> "idle", log |-> <<>>]

\* the entries of c that are not in the cache d
Gone(c, d) ==
  LET Missing(e) == \A j \in 1..Len(d) : d[j] # e
  IN SelectSeq(c, Missing)

\* the state of the service the synchronous pieces work on
TransState ==
  [cache |-> cache, calls |-> calls, last |-> last, nCalls |-> nCalls,
   ls |-> translationListeners, subs |-> nTranslationSubs, batch |-> batch]

CommitTranslation(t) ==
  /\ cache' = t.cache
  /\ calls' = t.calls
  /\ last' = t.last
  /\ nCalls' = t.nCalls
  /\ translationListeners' = t.ls
  /\ nTranslationSubs' = t.subs
  /\ batch' = t.batch

\* accessCount of the entry a subscriber would find under key, 0 for none
AccessCount(c, key) ==
  IF IndexOf(c, key) = 0 THEN 0 ELSE c[IndexOf(c, key)].accessCount

\* TranslationService.notifyListeners for an event of the call cl: the
\* service state and the call afterwards (seen records, for each event of
\* the call, what the cache held under the call's key when it was emitted)
notifyTranslation(t, cl, type, translation, error) ==
  LET r == forEach([ls |-> t.ls, subs |-> t.subs, invoked |-> <<>>],
                   1, Len(t.ls))
  IN [t |-> [t EXCEPT !.ls = r.ls, !.subs = r.subs],
      cl |-> [cl EXCEPT !.events =
                Append(@, [Event(type, translation, error) EXCEPT
                             !.before = t.ls,
                             !.invoked = r.invoked]),
                        !.seen = Append(@, AccessCount(t.cache, cl.key))]]

\* translateWord notifying before it caches the result
Proceed_NotifyFirst(t, cl) ==
  CASE cl.pc = "resolved" ->
         LET n == notifyTranslation(t, cl, "translation_completed",
                                    cl.result, NoMessage)
             t1 == [n.t EXCEPT !.cache = addToCache(@, cl.key, cl.result, now)]
         IN [t1 EXCEPT !.last = n.cl,
                       !.calls = {c0 \in @ : c0.id # cl.id}]
    [] cl.pc = "rejected" ->
         LET n == notifyTranslation(t, cl, "translation_failed",
                                    NoTranslation, cl.error)
         IN [n.t EXCEPT !.last = n.cl,
                        !.calls = {c0 \in @ : c0.id # cl.id}]
    [] OTHER ->
         [t EXCEPT !.calls = {c0 \in @ : c0.id # cl.id} \cup {cl}]

\* what translateWord does once the call cl is at its next suspension or end
\* (lookup and swept record what the call found in and removed from the
\* cache, replaced the call whose result its insertion found under the key)
Proceed(t, cl) ==
  CASE cl.pc = "resolved" ->
         LET t1 == [t EXCEPT !.cache = addToCache(@, cl.key, cl.result, now)]
             cl1 == [cl EXCEPT !.swept =
                       IF Len(t.cache) >= MaxCacheSize
                       THEN Gone(t.cache, evictLeastUsedItems(t.cache))
                       ELSE <<>>,
                               !.replaced =
                       IF IndexOf(t.cache, cl.key) = 0 THEN 0
                       ELSE t.cache[IndexOf(t.cache, cl.key)].translation.id]
             n == notifyTranslation(t1, cl1, "translation_completed",
                                    cl.result, NoMessage)
         IN [n.t EXCEPT !.last = n.cl,
                        !.calls = {c0 \in @ : c0.id # cl.id}]
    [] cl.pc = "rejected" ->
         LET n == notifyTranslation(t, cl, "translation_failed",
                                    NoTranslation, cl.error)
         IN [n.t EXCEPT !.last = n.cl,
                        !.calls = {c0 \in @ : c0.id # cl.id}]
    [] OTHER ->
         [t EXCEPT !.calls = {c0 \in @ : c0.id # cl.id} \cup {cl}]

\* translateWord(word, targetLanguage, preferredProvider) up to its first
\* suspension or its end (open records the calls suspended when it began)
translateWord(t, req, preferredProvider) ==
  LET target == IF req.target # <<>> THEN req.target
                ELSE DefaultTargetLanguage
      cacheKey == getCacheKey(req.text, req.language, target)
      cached == getFromCache(t.cache, cacheKey, now)
      cl == [NoCall EXCEPT !.id = t.nCalls + 1,
                           !.word = [text |-> req.text,
                                     language |-> req.language],
                           !.target = target,
                           !.preferred = preferredProvider,
                           !.key = cacheKey,
                           !.lang = req.language,
                           !.open = {c0.id : c0 \in t.calls},
                           !.lookup =
                              IF cached.hit THEN "hit"
                              ELSE IF IndexOf(t.cache, cacheKey) # 0
                                   THEN "expired" ELSE "absent"]
      t0 == [t EXCEPT !.nCalls = @ + 1, !.cache = cached.cache]
  IN IF cached.hit
     THEN LET n == notifyTranslation(
                     t0, [cl EXCEPT !.pc = "hit",
                                    !.result = cached.translation],
                     "translation_completed", cached.translation, NoMessage)
          IN [n.t EXCEPT !.last = n.cl]
     ELSE LET n == notifyTranslation(t0, cl, "translation_started",
                                     NoTranslation, NoMessage)
          IN Proceed(n.t, IF req.language = AUTO THEN detectFrom(n.cl, 1)
                          ELSE translateText(n.cl))

(***************************************************************************)
(* TranslationService.translateBatch                                       *)
(***************************************************************************)
\* the body of the for loop pushing whatever the await left behind, also
\* for a word whose translateWord rejected
afterWord_Holes(t) ==
  [t EXCEPT !.batch.translations = Append(@, t.last.result),
            !.batch.pos = @ + 1,
            !.batch.awaiting = 0,
            !.batch.log = Append(@, [text |-> t.last.word.text,
                                     pc |-> t.last.pc,
                                     result |-> t.last.result])]

\* the rest of the body of the for loop once translateWord has returned for
\* the current word: push on success, catch and go on otherwise
\* (log records the outcome of the call for each word)
afterWord(t) ==
  [t EXCEPT !.batch.translations =
               IF t.last.pc \in {"resolved", "hit"}
               THEN Append(@, t.last.result) ELSE @,
            !.batch.pos = @ + 1,
            !.batch.awaiting = 0,
            !.batch.log = Append(@, [text |-> t.last.word.text,
                                     pc |-> t.last.pc,
                                     result |-> t.last.result])]

\* the loop starting translateWord for the next word without awaiting the
\* one before
RECURSIVE batchLoop_Parallel(_)
batchLoop_Parallel(t) ==
  IF t.batch.pos > Len(t.batch.words)
  THEN t
  ELSE LET w == t.batch.words[t.batch.pos]
           t1 == translateWord(t, [text |-> w.text, language |-> w.language,
                                   target |-> t.batch.target], NoProvider)
       IN IF t1.last.id = t1.nCalls
          THEN batchLoop_Parallel(afterWord(t1))
          ELSE batchLoop_Parallel([t1 EXCEPT !.batch.awaiting = t1.nCalls,
                                             !.batch.pos = @ + 1])

\* the for loop of translateBatch from the current word up to the next
\* suspension on a provider, or to the return
RECURSIVE batchLoop(_)
batchLoop(t) ==
  IF t.batch.pos > Len(t.batch.words)
  THEN [t EXCEPT !.batch.pc = "returned"]
  ELSE LET w == t.batch.words[t.batch.pos]
           t1 == translateWord(t, [text |-> w.text, language |-> w.language,
                                   target |-> t.batch.target], NoProvider)
       IN IF t1.last.id = t1.nCalls
          THEN batchLoop(afterWord(t1))
          ELSE [t1 EXCEPT !.batch.awaiting = t1.nCalls]

\* the continuation of the translateBatch call that awaits the call id,
\* once that call has returned
resumeBatch(t, id) ==
  IF t.batch.awaiting = id /\ t.last.id = id
  THEN batchLoop(afterWord(t))
  ELSE t

(***************************************************************************)
(* TranslationService: the operations.                                     *)
(***************************************************************************)
TranslateWord(req, preferredProvider) ==
  /\ nCalls < MaxCalls
  /\ CommitTranslation(translateWord(TransState, req, preferredProvider))
  /\ UNCHANGED <<now, ticks, apis>>
  /\ UNCHANGED syncVars

TranslateBatch(words, targetLanguage) ==
  /\ batch.pc # "running"
  /\ nCalls + Len(words) <= MaxCalls
  /\ CommitTranslation(batchLoop(
        [TransState EXCEPT !.batch =
           [NoBatch EXCEPT !.words = words, !.target = targetLanguage,
                           !.pos = 1, !.pc = "running"]]))
  /\ UNCHANGED <<now, ticks, apis>>
  /\ UNCHANGED syncVars

\* the provider call the translateWord call cl awaits resolves
ProviderResolves(cl, detected) ==
  /\ cl \in calls
  /\ CommitTranslation(resumeBatch(
        IF cl.pc = "detect"
        THEN Proceed(TransState, translateText([cl EXCEPT !.lang = detected]))
        ELSE Proceed(TransState,
                     [cl EXCEPT !.pc = "resolved",
                                !.result = [id |-> cl.id,
                                            provider |-> cl.tried[Len(cl.tried)][2],
                                            text |-> cl.word.text,
                                            language |-> cl.lang]]),
        cl.id))
  /\ UNCHANGED <<now, ticks, apis>>
  /\ UNCHANGED syncVars

\* the provider call the translateWord call cl awaits rejects
ProviderRejects(cl) ==
  /\ cl \in calls
  /\ CommitTranslation(resumeBatch(
        Proceed(TransState,
                CASE cl.pc = "detect" -> detectFrom(cl, cl.idx + 1)
                  [] cl.pc = "preferred" -> loopFrom(cl, 1)
                  [] OTHER -> loopFrom(cl, cl.idx + 1)),
        cl.id))
  /\ UNCHANGED <<now, ticks, apis>>
  /\ UNCHANGED syncVars

ClearCache ==
  /\ cache' = <<>>
  /\ UNCHANGED <<now, ticks, apis, calls, nCalls, last, translationListeners,
                 nTranslationSubs, batch>>
  /\ UNCHANGED syncVars

\* destroy()
Destroy ==
  /\ apis' = <<>>
  /\ cache' = <<>>
  /\ translationListeners' = <<>>
  /\ UNCHANGED <<now, ticks, calls, nCalls, last, nTranslationSubs, batch>>
  /\ UNCHANGED syncVars

\* onTranslation(callback)
OnTranslation(does) ==
  /\ nTranslationSubs < MaxSubscribers
  /\ translationListeners' =
       Append(translationListeners, [id |-> nTranslationSubs + 1, does |-> does])
  /\ nTranslationSubs' = nTranslationSubs + 1
  /\ UNCHANGED <<now, ticks, apis, cache, calls, nCalls, last, batch>>
  /\ UNCHANGED syncVars

\* a call, between two events, of the function onTranslation returned
UnsubscribeTranslation(callback) ==
  /\ translationListeners' = unsubscribe(translationListeners, callback)
  /\ UNCHANGED <<now, ticks, apis, cache, calls, nCalls, last,
                 nTranslationSubs, batch>>
  /\ UNCHANGED syncVars

\* time passes
Tick(d) ==
  /\ ticks < MaxTicks
  /\ ticks' = ticks + 1
  /\ now' = now + d
  /\ UNCHANGED <<apis, cache, calls, nCalls, last, translationListeners,
                 nTranslationSubs, batch>>
  /\ UNCHANGED syncVars

\* no translateWord call made yet
NoCalls ==
  /\ now = 0
  /\ ticks = 0
  /\ calls = {}
  /\ nCalls = 0
  /\ last = NoCall
  /\ translationListeners = <<>>
  /\ nTranslationSubs = 0
  /\ batch = NoBatch

TransInit == NoCalls /\ cache = <<>>

\* the sync service, with an idle translation service
Init == SyncInit /\ TransInit /\ apis = <<>>

Next ==
  \/ Initialize
  \/ SyncRecord
  \/ \E n \in 0..MaxBatch : SyncBatch(n)
  \/ ClearQueue
  \/ RetryFailedItems
  \/ TimerTick
  \/ \E f \in inflight : CreateResolves(f)
  \/ \E f \in inflight : CreateRejects(f)
  \/ \E f \in inflight : NoClientRejects(f)

Spec == Init /\ [][Next]_vars

\* one syncBatch call of MaxQueued words on an initialized service, every
\* create call resolving or rejecting, retryFailedItems called at any time
RetryNext ==
  \/ Initialize
  \/ client /\ nextId = 0 /\ SyncBatchOf(MaxQueued)
  \/ RetryFailedItems
  \/ \E f \in inflight : CreateResolves(f)
  \/ \E f \in inflight : CreateRejects(f)

SpecRetry == Init /\ [][RetryNext]_vars

\* the initialized sync service enqueuing records while every create call
\* settles: no clearQueue, no retryFailedItems, no timer
Settles ==
  \E f \in inflight : CreateResolves(f) \/ CreateRejects(f)

LiveNext ==
  \/ Initialize
  \/ SyncRecord
  \/ \E n \in 0..MaxBatch : client /\ SyncBatch(n)
  \/ \E f \in inflight : CreateResolves(f)
  \/ \E f \in inflight : CreateRejects(f)

\* every create call is eventually settled
SpecLive == Init /\ [][LiveNext]_vars /\ WF_vars(Settles)

\* the translation service with the registry the factory builds from a
\* configuration that enables Google, beside an idle sync service
CacheInit == SyncInit /\ TransInit /\ apis = <<GOOGLE>>

\* no translateWord call is suspended
Idle == calls = {}

CacheNext ==
  \/ \E req \in Requests : Idle /\ TranslateWord(req, NoProvider)
  \/ \E cl \in calls, detected \in DetectedLanguages : ProviderResolves(cl, detected)
  \/ \E cl \in calls : ProviderRejects(cl)
  \/ ClearCache
  \/ \E d \in {CacheExpiryTime, CacheExpiryTime + 1} : Tick(d)

SpecCache == CacheInit /\ [][CacheNext]_vars

\* the cache under every use of the service: translateWord calls that may
\* overlap, clearCache, destroy and the passing of time
StoreRequests ==
  {req \in Requests : req.language = EN /\ req.target \in {ZH_CN, <<>>}}

StoreNext ==
  \/ \E req \in StoreRequests :
        Cardinality(calls) < MaxOverlap /\ TranslateWord(req, NoProvider)
  \/ \E cl \in calls, detected \in DetectedLanguages : ProviderResolves(cl, detected)
  \/ \E cl \in calls : ProviderRejects(cl)
  \/ ClearCache
  \/ Destroy
  \/ Tick(CacheExpiryTime + 1)

SpecStore == CacheInit /\ [][StoreNext]_vars

\* translateText against every registry, with and without a preferred
\* provider, beside an idle sync service
ManagerInit == SyncInit /\ TransInit /\ apis \in Registries

ManagerRequests == {req \in Requests : req.text = <<"H", "i">> /\ req.target = ZH_CN}

ManagerNext ==
  \/ \E req \in ManagerRequests, p \in Providers \cup {NoProvider} :
        Idle /\ TranslateWord(req, p)
  \/ \E cl \in calls, detected \in DetectedLanguages : ProviderResolves(cl, detected)
  \/ \E cl \in calls : ProviderRejects(cl)

SpecManager == ManagerInit /\ [][ManagerNext]_vars

\* the words translateBatch is called with
BatchWords ==
  {[text |-> <<"H", "i">>, language |-> EN],
   [text |-> <<"h", "i">>, language |-> EN],
   [text |-> <<"y", "o">>, language |-> EN],
   [text |-> <<"H", "i">>, language |-> AUTO]}

WordLists == UNION {[1..n -> BatchWords] : n \in 0..MaxWords}

\* translateBatch calls one after another on the registry of CacheInit;
\* every word's provider call may resolve or reject
BatchNext ==
  \/ \E words \in WordLists, target \in {<<>>, FR} : TranslateBatch(words, target)
  \/ \E cl \in calls, detected \in DetectedLanguages : ProviderResolves(cl, detected)
  \/ \E cl \in calls : ProviderRejects(cl)

SpecBatch == CacheInit /\ [][BatchNext]_vars

\* both services with subscribers of every behaviour: the callbacks are
\* subscribed before the first operation, the operations follow one another,
\* and a behaviour exercises one of the two services
SyncUntouched == ~client /\ listeners = <<>> /\ nSubs = 0

TranslationUntouched ==
  nCalls = 0 /\ translationListeners = <<>> /\ nTranslationSubs = 0

SyncIdle == syncQueue = <<>> /\ inflight = {}

EventRequests ==
  {req \in Requests : req.text = <<"H", "i">> /\ req.language = EN /\ req.target = ZH_CN}

EventsNext ==
  \/ TranslationUntouched /\ Initialize
  \/ \E does \in Callbacks : TranslationUntouched /\ trace = <<>> /\ OnSync(does)
  \/ \E i \in 1..Len(listeners) : trace = <<>> /\ Unsubscribe(listeners[i])
  \/ TranslationUntouched /\ SyncIdle /\ SyncRecord
  \/ \E f \in inflight : CreateResolves(f)
  \/ \E f \in inflight : CreateRejects(f)
  \/ \E does \in Callbacks : SyncUntouched /\ nCalls = 0 /\ OnTranslation(does)
  \/ \E i \in 1..Len(translationListeners) :
        nCalls = 0 /\ UnsubscribeTranslation(translationListeners[i])
  \/ \E req \in EventRequests : SyncUntouched /\ Idle /\ TranslateWord(req, NoProvider)
  \/ \E cl \in calls, detected \in DetectedLanguages : ProviderResolves(cl, detected)
  \/ \E cl \in calls : ProviderRejects(cl)

SpecEvents == CacheInit /\ [][EventsNext]_vars

\* evictLeastUsedItems applied to Maps of up to MaxEntries entries
MaxEntries == 11

\* the i-th word: "a", "aa", "aaa", ...
WordOf(i) == [j \in 1..i |-> "a"]

\* creation times of the entries of a Map: all equal, in insertion order
\* (entries set once), or against it (entries set again under their key)
Stamps == {"same", "rising", "falling"}

\* the Map of n entries, those of used looked up once since their creation
MapOf(n, used, stamps) ==
  [i \in 1..n |->
     [key |-> getCacheKey(WordOf(i), EN, ZH_CN),
      translation |-> [id |-> i, provider |-> GOOGLE, text |-> WordOf(i),
                       language |-> EN],
      timestamp |-> CASE stamps = "same" -> 0
                      [] stamps = "rising" -> i
                      [] OTHER -> n - i,
      accessCount |-> IF i \in used THEN 2 ELSE 1]]

EvictInit ==
  /\ SyncInit
  /\ NoCalls
  /\ apis = <<GOOGLE>>
  /\ \E n \in 1..MaxEntries, used \in SUBSET (1..MaxEntries), stamps \in Stamps :
       /\ used \subseteq 1..n
       /\ cache = MapOf(n, used, stamps)

Evict ==
  /\ last = NoCall
  /\ cache' = evictLeastUsedItems(cache)
  /\ last' = [NoCall EXCEPT !.pc = "evicted", !.swept = Gone(cache, cache')]
  /\ UNCHANGED <<now, ticks, apis, calls, nCalls, translationListeners,
                 nTranslationSubs, batch>>
  /\ UNCHANGED syncVars

EvictNext == Evict

SpecEvict == EvictInit /\ [][EvictNext]_vars


(***************************************************************************)
(* Vocabulary of the properties of the sync queue.                         *)
(***************************************************************************)
Positions(type, id) ==
  {i \in 1..Len(trace) : trace[i].type = type /\ trace[i].id = id}

Count(type, id) == Cardinality(Positions(type, id))

InQueue(id) == \E i \in 1..Len(syncQueue) : syncQueue[i].id = id

InFlight(id) == \E f \in inflight : f.item.id = id

\* the attempts on the record that have begun
Attempts(id) ==
  Count("caught", id) + Count("sync_completed", id)
    + (IF InFlight(id) THEN 1 ELSE 0)

\* every attempt on the record got as far as calling createPage
ReachedCreate(id) ==
  \A i \in Positions("caught", id) : trace[i].error # NoClientError

\* the queue is through with the record: it was enqueued, it is neither
\* waiting nor in flight, and clearQueue did not remove it
Left(id) ==
  /\ id \in DOMAIN records
  /\ ~InQueue(id)
  /\ ~InFlight(id)
  /\ id \notin dropped

\* the record left the queue and every create call for it failed, with no
\* retryFailedItems in between
Exhausted(id) ==
  /\ Left(id)
  /\ id \notin rearmed
  /\ ReachedCreate(id)
  /\ Count("sync_completed", id) = 0

(***************************************************************************)
(* C1 (as stated): a record whose create call fails on every attempt ends  *)
(* Failed after exactly 3 create attempts, with exactly one sync_failed    *)
(* event.                                                                  *)
(***************************************************************************)
C1_ThreeAttempts ==
  \A id \in DOMAIN records :
    Exhausted(id) =>
      /\ records[id].status = FAILED
      /\ Count("create", id) = 3
      /\ Count("sync_failed", id) = 1

(***************************************************************************)
(* C1 (amended): a record whose create call fails on every attempt ends    *)
(* Failed after exactly maxRetries + 1 = 4 create attempts (the first one  *)
(* and 3 retries), with exactly one sync_failed event.                     *)
(***************************************************************************)
C1_Exhaustion ==
  \A id \in DOMAIN records :
    Exhausted(id) =>
      /\ records[id].status = FAILED
      /\ Count("create", id) = MaxRetries + 1
      /\ Count("sync_failed", id) = 1

C1_Witness ==
  \E id \in DOMAIN records :
    Exhausted(id) /\ Count("create", id) = 4 /\ Count("sync_failed", id) = 1

(***************************************************************************)
(* C2: a record whose create call fails twice and then succeeds has had    *)
(* exactly 3 create attempts, is Synced with a page id, and produced one   *)
(* sync_completed and no sync_failed event.                                *)
(***************************************************************************)
FailedTwiceThenSynced(id) ==
  /\ ReachedCreate(id)
  /\ Count("caught", id) = 2
  /\ ~InQueue(id) /\ ~InFlight(id) /\ id \notin dropped

C2_RetryThenSuccess ==
  \A id \in DOMAIN records :
    FailedTwiceThenSynced(id) =>
      /\ Count("create", id) = 3
      /\ records[id].status = SYNCED
      /\ records[id].notionPageId # NoPage
      /\ Count("sync_completed", id) = 1
      /\ Count("sync_failed", id) = 0

C2_Witness ==
  \E id \in DOMAIN records :
    FailedTwiceThenSynced(id) /\ records[id].status = SYNCED

(***************************************************************************)
(* C3: a failed item with retry budget left goes behind every waiting      *)
(* item; so when R1 (never succeeds) is enqueued before R2 (never fails)   *)
(* and R2 is enqueued before R1's first failure, R2 is Synced, by an       *)
(* attempt made after R1's first failure, before R1's second attempt       *)
(* begins, hence before R1 exhausts its retries.                           *)
(***************************************************************************)
First(S) == CHOOSE i \in S : \A j \in S : i <= j

\* a failure of the in-flight item f with retry budget left is handled in
\* this step
RequeuedNow(f) ==
  /\ f.item.retryCount < f.item.maxRetries
  /\ Count("caught", f.item.id)' = Count("caught", f.item.id) + 1

RequeueAtTail ==
  \A f \in inflight :
    RequeuedNow(f) =>
      LET q == Append(syncQueue, [f.item EXCEPT !.retryCount = @ + 1])
      IN /\ syncQueue' = Tail(q)
         /\ \A g \in inflight' : g.item = Head(q)

FairnessCase(a, b) ==
  /\ a < b
  /\ ReachedCreate(a)
  /\ Count("sync_completed", a) = 0
  /\ Count("caught", b) = 0
  /\ b \notin dropped
  /\ Positions("caught", a) # {}
  /\ First(Positions("enqueued", b)) < First(Positions("caught", a))
  /\ Attempts(a) >= 2

SyncedBetween(a, b) ==
  /\ records[b].status = SYNCED
  /\ Count("sync_completed", b) = 1
  /\ \A i \in Positions("create", b) : First(Positions("caught", a)) < i
  /\ \A i \in Positions("sync_completed", b) :
       Cardinality({j \in Positions("create", a) : j < i}) = 1

C3_Fair ==
  \A a \in DOMAIN records, b \in DOMAIN records :
    FairnessCase(a, b) => SyncedBetween(a, b)

C3_QueueFairness == []C3_Fair /\ [][RequeueAtTail]_vars

C3_Witness ==
  \E a \in DOMAIN records, b \in DOMAIN records :
    /\ FairnessCase(a, b)
    /\ Count("sync_failed", a) = 1
    /\ records[b].status = SYNCED

(***************************************************************************)
(* C4: at most one drain loop is active and at most one create call is in  *)
(* flight; a drain request (syncRecord, syncBatch, retryFailedItems, timer *)
(* tick) made while a drain is active starts no attempt, emits no event    *)
(* and changes no record: it only enqueues or resets counters.             *)
(***************************************************************************)
OneDrain ==
  /\ Cardinality(inflight) <= 1
  /\ inflight # {} => isProcessing

DrainRequest ==
  \/ SyncRecord
  \/ \E n \in 0..MaxBatch : SyncBatch(n)
  \/ RetryFailedItems
  \/ TimerTick

NotEnqueued(e) == e.type \notin {"enqueued", "returned"}

OnlyEnqueues ==
  /\ inflight' = inflight
  /\ isProcessing' = isProcessing
  /\ SelectSeq(trace', NotEnqueued) = SelectSeq(trace, NotEnqueued)
  /\ \A id \in DOMAIN records : records'[id] = records[id]
  /\ Len(syncQueue') >= Len(syncQueue)
  /\ \A i \in 1..Len(syncQueue) : syncQueue'[i].id = syncQueue[i].id

DrainRequestIsNoOp == ~isProcessing \/ OnlyEnqueues \/ ~DrainRequest

C4_SingleDrain == []OneDrain /\ [][DrainRequestIsNoOp]_vars

C4_Witness ==
  /\ isProcessing
  /\ Cardinality(inflight) = 1
  /\ Len(syncQueue) >= 1
  /\ rearms >= 1

(***************************************************************************)
(* C5: a record's status changes only along Pending->Syncing,              *)
(* Syncing->Synced, Syncing->Pending and Syncing->Failed; Synced and       *)
(* Failed are never left while the queue drains; a record waiting for a    *)
(* retry is Pending.                                                       *)
(***************************************************************************)
AllowedTransitions ==
  {<<PENDING, SYNCING>>, <<SYNCING, SYNCED>>, <<SYNCING, PENDING>>,
   <<SYNCING, FAILED>>}

StatusStep ==
  \A id \in DOMAIN records :
    \/ records'[id].status = records[id].status
    \/ <<records[id].status, records'[id].status>> \in AllowedTransitions

WaitingIsPending ==
  \A id \in DOMAIN records : InQueue(id) => records[id].status = PENDING

C5_StatusMachine == []WaitingIsPending /\ [][StatusStep]_vars

(***************************************************************************)
(* Vocabulary of the properties of the translation service.                *)
(***************************************************************************)
Entries(c) == {c[i] : i \in 1..Len(c)}

Keys(c) == {c[i].key : i \in 1..Len(c)}

\* a translateWord call returned in this step
Returned == last' # last

\* the providers whose translateText the call invoked, in order
Translated(cl) ==
  LET IsTranslate(t) == t[1] = "translate"
      ts == SelectSeq(cl.tried, IsTranslate)
  IN [i \in 1..Len(ts) |-> ts[i][2]]

(***************************************************************************)
(* C6: the cache never holds more than maxCacheSize entries, whatever the  *)
(* sequence of insertions, lookups and clears.                             *)
(***************************************************************************)
C6_CacheBound == Len(cache) <= MaxCacheSize

C6_Witness ==
  /\ last.pc = "resolved"
  /\ last.swept # <<>>
  /\ Len(cache) = MaxCacheSize
  /\ last.key \in Keys(cache)

(***************************************************************************)
(* C7: the eviction an insertion at size >= maxCacheSize performs removes  *)
(* exactly ceil(size / 10) entries (at least one); no surviving entry has  *)
(* a lower accessCount than an evicted one, and among equal accessCounts   *)
(* no surviving entry is older than an evicted one.                        *)
(***************************************************************************)
Evicted == {e \in Entries(cache) : e \notin Entries(cache')}

Survivors == Entries(cache) \ Evicted

\* the least k with 10 * k >= n
Tenth(n) == CHOOSE k \in 0..n : 10 * k >= n /\ 10 * (k - 1) < n

LeastUsedEvicted ==
  cache' # cache =>
    /\ Cardinality(Evicted) = Tenth(Len(cache))
    /\ Cardinality(Evicted) >= 1
    /\ Entries(cache') = Survivors
    /\ Len(cache') = Len(cache) - Cardinality(Evicted)
    /\ \A e \in Evicted, k \in Survivors :
         /\ e.accessCount <= k.accessCount
         /\ e.accessCount = k.accessCount => e.timestamp <= k.timestamp

EvictionHappens == (last = NoCall /\ last' # NoCall) => cache' # cache

C7_LfuEviction == [][LeastUsedEvicted /\ EvictionHappens]_vars

\* two entries evicted, one for its use and one for its age
C7_Witness ==
  /\ last.pc = "evicted"
  /\ Len(last.swept) = 2
  /\ \E i \in 1..Len(cache), j \in 1..Len(cache) :
       /\ cache[i].accessCount > last.swept[1].accessCount
       /\ cache[i].timestamp < last.swept[1].timestamp
       /\ cache[j].accessCount = last.swept[2].accessCount
       /\ cache[j].timestamp > last.swept[2].timestamp

(***************************************************************************)
(* C8: a translateWord whose lookup finds an entry older than the expiry   *)
(* duration misses, deletes the entry (a second lookup is absent too) and  *)
(* goes to the provider; a lookup that finds an entry not older than the   *)
(* expiry duration is a hit that returns the entry's translation.          *)
(***************************************************************************)
\* the translateWord call begun in this step
Begun == CHOOSE cl \in calls' \cup {last'} : cl.id = nCalls'

LookupStep ==
  nCalls' = nCalls + 1 =>
    LET key == Begun.key
        i == IndexOf(cache, key)
    IN i # 0 =>
         IF now - cache[i].timestamp > CacheExpiryTime
         THEN /\ IndexOf(cache', key) = 0
              /\ ~getFromCache(cache', key, now').hit
              /\ Begun \in calls'
              /\ Begun.events[1].type = "translation_started"
              /\ Len(Begun.tried) = 1
         ELSE /\ Begun = last'
              /\ Begun.pc = "hit"
              /\ Begun.result = cache[i].translation
              /\ Begun.tried = <<>>
              /\ cache' = [cache EXCEPT ![i].accessCount = @ + 1]

C8_LazyExpiry == [][LookupStep]_vars

C8_Witness ==
  \E cl \in calls :
    /\ cl.lookup = "expired"
    /\ IndexOf(cache, cl.key) = 0
    /\ cl.tried # <<>>

\* an entry exactly as old as the expiry duration is still a hit
C8_WitnessHit ==
  /\ last.pc = "hit"
  /\ \E i \in 1..Len(cache) :
       cache[i].key = last.key /\ now - cache[i].timestamp = CacheExpiryTime

(***************************************************************************)
(* C9: without a (registered) preferred provider, translateText invokes    *)
(* the providers one after another in registration order and resolves with *)
(* the result of the first that succeeds; it rejects only after all of     *)
(* them failed.  With A failing and B succeeding it resolves with B's      *)
(* result.                                                                 *)
(***************************************************************************)
NoPreference(cl) == cl.preferred = NoProvider \/ ~Has(cl.preferred)

InOrder(cl) ==
  LET t == Translated(cl)
  IN /\ Len(t) <= Len(apis)
     /\ t = SubSeq(apis, 1, Len(t))
     /\ cl.pc = "resolved" => Len(t) >= 1 /\ cl.result.provider = t[Len(t)]
     /\ cl.pc = "rejected" => t = apis
     /\ cl.pc = "loop" => Len(t) >= 1

FallbackOrder ==
  \A cl \in calls \cup {last} :
    (cl.id # 0 /\ cl.pc # "hit" /\ cl.pc # "detect" /\ NoPreference(cl))
      => InOrder(cl)

\* a success of the awaited translate call ends the call with that result
FirstSuccessWins ==
  \A cl \in calls :
    (cl.pc = "loop" /\ \E d \in DetectedLanguages : ProviderResolves(cl, d)) =>
      /\ last'.id = cl.id
      /\ last'.pc = "resolved"
      /\ last'.result.provider = apis[cl.idx]
      /\ last'.result.id = cl.id

C9_FallbackOrder == []FallbackOrder /\ [][FirstSuccessWins]_vars

C9_Witness ==
  /\ apis = <<GOOGLE, DEEPL>>
  /\ last.pc = "resolved"
  /\ last.preferred = NoProvider
  /\ Translated(last) = <<GOOGLE, DEEPL>>
  /\ last.result.provider = DEEPL

(***************************************************************************)
(* C10: a registered preferred provider is invoked first; after its        *)
(* failure only the other registered providers are invoked, in             *)
(* registration order; no provider is invoked twice in one call.           *)
(***************************************************************************)
Others(p) == LET Other(q) == q # p IN SelectSeq(apis, Other)

PreferredFirst(cl) ==
  LET t == Translated(cl)
  IN /\ Len(t) >= 1
     /\ t[1] = cl.preferred
     /\ Len(t) - 1 <= Len(Others(cl.preferred))
     /\ Tail(t) = SubSeq(Others(cl.preferred), 1, Len(t) - 1)
     /\ \A i \in 1..Len(t), j \in 1..Len(t) : t[i] = t[j] => i = j

C10_PreferredRouting ==
  \A cl \in calls \cup {last} :
    (cl.id # 0 /\ cl.pc # "hit" /\ cl.pc # "detect" /\ ~NoPreference(cl))
      => PreferredFirst(cl)

(***************************************************************************)
(* C11: when the translate of every registered provider fails (or none is  *)
(* registered), translateWord rejects with the error of translateText,     *)
(* emits translation_started and then translation_failed carrying that     *)
(* error's message, and inserts nothing into the cache.                    *)
(***************************************************************************)
Range(seq) == {seq[i] : i \in 1..Len(seq)}

RejectedCall ==
  last.pc = "rejected" =>
    /\ Range(Translated(last)) = Range(apis)
    /\ last.error = AllUnavailable
    /\ last.result = NoTranslation
    /\ Len(last.events) = 2
    /\ last.events[1].type = "translation_started"
    /\ last.events[2] = Event("translation_failed", NoTranslation, AllUnavailable)
    /\ last.key \notin Keys(cache)

\* the provider the suspended call awaits is the last one translateText tries
AwaitsLastProvider(cl) == cl.pc = "loop" /\ cl.idx = Len(apis)

LastFailureRejects ==
  /\ \A cl \in calls :
       (AwaitsLastProvider(cl) /\ ProviderRejects(cl)) =>
          last'.id = cl.id /\ last'.pc = "rejected"
  /\ (Returned /\ last'.pc = "rejected") =>
       /\ Entries(cache') \subseteq Entries(cache)
       /\ \A e \in Entries(cache) \ Entries(cache') : e.key = last'.key

FreshEntry(i, key) ==
  /\ cache[i].key = key
  /\ now - cache[i].timestamp <= CacheExpiryTime

HitStep ==
  nCalls' = nCalls + 1 =>
    \A i \in 1..Len(cache) :
      FreshEntry(i, Begun.key) =>
        /\ last' = Begun
        /\ calls' = calls
        /\ last'.pc = "hit"
        /\ last'.result = cache[i].translation
        /\ last'.events =
             <<Event("translation_completed", cache[i].translation, NoMessage)>>
        /\ last'.tried = <<>>
        /\ Len(cache') = Len(cache)
        /\ cache'[i].accessCount = cache[i].accessCount + 1
        /\ cache'[i].translation = cache[i].translation
        /\ cache'[i].timestamp = cache[i].timestamp
        /\ \A j \in 1..Len(cache) : j # i => cache'[j] = cache[j]

C16_CacheHitPath == [][HitStep]_vars

\* the entry hit was stored by an auto-detect request and has now been hit twice
C16_Witness ==
  /\ last.pc = "hit"
  /\ last.word.language = AUTO
  /\ \E i \in 1..Len(cache) :
       /\ cache[i].key = last.key
       /\ cache[i].accessCount = 3
       /\ cache[i].translation = last.result

(***************************************************************************)
(* Vocabulary of language detection.                                       *)
(***************************************************************************)
\* the providers whose detectLanguage the call invoked, in order
Detected(cl) ==
  LET IsDetect(t) == t[1] = "detect"
      ts == SelectSeq(cl.tried, IsDetect)
  IN [i \in 1..Len(ts) |-> ts[i][2]]

\* the call cl as it is after this step
After(cl) == CHOOSE c2 \in calls' \cup {last'} : c2.id = cl.id

\* the call went from language detection to the translate step
WentOnToTranslate(cl, language) ==
  /\ After(cl) \in calls'
  /\ After(cl).pc # "detect"
  /\ After(cl).lang = language
  /\ Detected(After(cl)) = Detected(cl)
  /\ Len(Translated(After(cl))) = 1
  /\ After(cl).events = cl.events

\* detection in registration order, first answer taken, sentinel when none
DetectionStep(sentinel) ==
  \A cl \in calls :
    cl.pc = "detect" =>
      /\ Detected(cl) = SubSeq(apis, 1, cl.idx)
      /\ Translated(cl) = <<>>
      /\ \A d \in DetectedLanguages :
           ProviderResolves(cl, d) => WentOnToTranslate(cl, d)
      /\ (ProviderRejects(cl) /\ cl.idx < Len(apis)) =>
           /\ After(cl).pc = "detect"
           /\ Detected(After(cl)) = SubSeq(apis, 1, cl.idx + 1)
      /\ (ProviderRejects(cl) /\ cl.idx = Len(apis)) =>
           WentOnToTranslate(cl, sentinel)

\* with no provider registered detection answers the sentinel at once, and
\* the failure of the call is that of the translate step
NoProviderToAsk(sentinel) ==
  (last.word.language = AUTO /\ last.pc = "rejected" /\ apis = <<>>) =>
     last.lang = sentinel /\ last.error = AllUnavailable

(***************************************************************************)
(* C17 (as stated): detectLanguage asks the registered providers in        *)
(* registration order and returns the first answer; when every detection   *)
(* fails or no provider is registered it returns the language "unknown"    *)
(* without rejecting, and translateWord goes on to the translate step.     *)
(***************************************************************************)
UNKNOWN == <<"u", "n", "k", "n", "o", "w", "n">>

C17_UnknownSentinel ==
  []NoProviderToAsk(UNKNOWN) /\ [][DetectionStep(UNKNOWN)]_vars

(***************************************************************************)
(* C17 (amended): detectLanguage asks the registered providers in          *)
(* registration order and returns the first answer; when every detection   *)
(* fails or no provider is registered it returns the language "auto"       *)
(* without rejecting, and translateWord goes on to the translate step.     *)
(***************************************************************************)
C17_AdvisoryDetection ==
  []NoProviderToAsk(AUTO) /\ [][DetectionStep(AUTO)]_vars

\* both detections failed and the first translate call is awaited
C17_Witness ==
  \E cl \in calls :
    /\ cl.word.language = AUTO
    /\ apis = <<GOOGLE, DEEPL>>
    /\ Detected(cl) = apis
    /\ cl.lang = AUTO
    /\ Translated(cl) = <<GOOGLE>>

(***************************************************************************)
(* Vocabulary of the cache key: the call that returned last (last) and the *)
(* call begun in this step (Begun), while the entry last stored or hit is  *)
(* still in the cache and not expired.                                     *)
(***************************************************************************)
EntryOfLast(i) ==
  /\ last.pc \in {"resolved", "hit"}
  /\ cache[i].key = last.key
  /\ cache[i].translation = last.result
  /\ now - cache[i].timestamp <= CacheExpiryTime

HitsEntry(i) == Begun.pc = "hit" /\ Begun.result = cache[i].translation

\* the two requests name the same languages, letter for letter
SameLanguages(a, b) ==
  a.word.language = b.word.language /\ a.target = b.target

\* the two requests name the same languages up to letter case
SameLanguagesModuloCase(a, b) ==
  /\ toLowerCase(a.word.language) = toLowerCase(b.word.language)
  /\ toLowerCase(a.target) = toLowerCase(b.target)

\* the texts are equal up to letter case
SameTextModuloCase(a, b) == toLowerCase(a.word.text) = toLowerCase(b.word.text)

(***************************************************************************)
(* C18 (as stated): a request whose text differs from that of the previous *)
(* request only in letter case, with identical languages, is a hit on the  *)
(* entry the previous request stored; a request that differs from it in    *)
(* source or target language resolves to a different entry.                *)
(***************************************************************************)
KeyStep ==
  nCalls' = nCalls + 1 =>
    \A i \in 1..Len(cache) :
      EntryOfLast(i) =>
        /\ (SameTextModuloCase(last, Begun) /\ SameLanguages(last, Begun))
              => HitsEntry(i)
        /\ ~SameLanguages(last, Begun)
              => Begun.key # last.key /\ ~HitsEntry(i)

C18_KeyNormalization == [][KeyStep]_vars

(***************************************************************************)
(* C18 (amended): a request whose text and language codes differ from      *)
(* those of the previous request only in letter case is a hit on the entry *)
(* the previous request stored; a request whose source or target language  *)
(* code differs from it in more than letter case resolves to a different   *)
(* entry.                                                                  *)
(***************************************************************************)
KeyStepModuloCase ==
  nCalls' = nCalls + 1 =>
    \A i \in 1..Len(cache) :
      EntryOfLast(i) =>
        /\ (SameTextModuloCase(last, Begun) /\ SameLanguagesModuloCase(last, Begun))
              => HitsEntry(i)
        /\ ~SameLanguagesModuloCase(last, Begun)
              => Begun.key # last.key /\ ~HitsEntry(i)

C18_KeyModuloCase == [][KeyStepModuloCase]_vars

\* "hi" answered from the entry that "Hi" stored
C18_Witness ==
  /\ last.pc = "hit"
  /\ last.word.text = <<"h", "i">>
  /\ last.result.text = <<"H", "i">>
  /\ last.key \in Keys(cache)

(***************************************************************************)
(* C19: for each record at most one terminal event is emitted, either      *)
(* sync_completed or sync_failed; sync_completed carries the record in     *)
(* status Synced with the page id the create call returned; sync_failed    *)
(* carries the record in status Failed and the message of the error of the *)
(* last failed attempt; no attempt on the record follows its terminal      *)
(* event.                                                                  *)
(***************************************************************************)
IsTerminal(e) == e.type \in {"sync_completed", "sync_failed"}

\* position of the latest create call made before position i
LastCreate(i) ==
  LET S == {j \in 1..(i - 1) : trace[j].type = "create"}
  IN CHOOSE j \in S : \A k \in S : k <= j

\* number of the create call made at position j
CallAt(j) == Cardinality({k \in 1..j : trace[k].type = "create"})

CompletedEvent(i) ==
  /\ trace[i].status = SYNCED
  /\ \E j \in 1..(i - 1) : trace[j].type = "create"
  /\ trace[LastCreate(i)].id = trace[i].id
  /\ trace[i].notionPageId = CallAt(LastCreate(i))
  /\ trace[i].error = NoError

FailedEvent(i) ==
  /\ trace[i].status = FAILED
  /\ trace[i].notionPageId = NoPage
  /\ trace[i].error # NoError
  /\ trace[i - 1].type = "caught"
  /\ trace[i - 1].id = trace[i].id
  /\ trace[i - 1].error = trace[i].error
  /\ trace[i].error # NoClientError =>
       /\ trace[LastCreate(i)].id = trace[i].id
       /\ trace[i].error = CallAt(LastCreate(i))

C19_TerminalEvents ==
  \A i \in 1..Len(trace) :
    /\ trace[i].type = "sync_completed" => CompletedEvent(i)
    /\ trace[i].type = "sync_failed" => FailedEvent(i)
    /\ IsTerminal(trace[i]) =>
         \A j \in (i + 1)..Len(trace) :
           trace[j].id = trace[i].id =>
             trace[j].type \notin {"sync_completed", "sync_failed", "create",
                                   "sync_started", "caught"}

\* one record completed after a failure, another failed for good
C19_Witness ==
  \E a \in DOMAIN records, b \in DOMAIN records :
    /\ Count("sync_completed", a) = 1
    /\ Count("caught", a) >= 1
    /\ Count("sync_failed", b) = 1
    /\ Count("create", b) = MaxRetries + 1

(***************************************************************************)
(* C20: clearQueue removes every waiting item: an item that was waiting    *)
(* when clearQueue was called is never passed to the create call           *)
(* afterwards and produces no event afterwards; the item whose create call *)
(* is in flight stays in flight and the drain stays active, so its attempt *)
(* ends with its normal handling.                                          *)
(***************************************************************************)
DroppedAreGone ==
  \A id \in dropped : ~InQueue(id) /\ ~InFlight(id)

\* the effects this step adds to the trace
Added == {i \in 1..Len(trace') : i > Len(trace)}

SilentAfterDrop ==
  /\ Len(trace') >= Len(trace)
  /\ \A i \in Added : trace'[i].id \notin dropped

ClearKeepsFlight ==
  ClearQueue =>
    /\ syncQueue' = <<>>
    /\ inflight' = inflight
    /\ isProcessing' = isProcessing
    /\ records' = records
    /\ trace' = trace

\* the attempt in flight across a clearQueue ends as any other
FlightCompletes ==
  \A f \in inflight :
    dropped # {} =>
      /\ CreateResolves(f) =>
           /\ records'[f.item.id].status = SYNCED
           /\ Count("sync_completed", f.item.id)' = 1
      /\ (CreateRejects(f) /\ f.item.retryCount < f.item.maxRetries) =>
           \/ InQueue(f.item.id)'
           \/ InFlight(f.item.id)'

C20_ClearQueue ==
  /\ []DroppedAreGone
  /\ [][SilentAfterDrop /\ ClearKeepsFlight /\ FlightCompletes]_vars

\* record 2 was dropped while the only create call for record 1 was in
\* flight, and that call completed
C20_Witness ==
  /\ dropped = {2}
  /\ Count("enqueued", 2) = 1
  /\ Count("create", 2) = 0
  /\ Count("create", 1) = 1
  /\ Count("sync_completed", 1) = 1

(***************************************************************************)
(* C15: syncRecord and syncBatch return, in the step in which they         *)
(* enqueue, the records they created, in input order and in status         *)
(* Pending; no create call has settled when they return, so a failing      *)
(* create call cannot make them reject: the failure shows as the record's  *)
(* syncError and, once the retries are used up, as status Failed and a     *)
(* sync_failed event.                                                      *)
(***************************************************************************)
ReturnedPending ==
  \A i \in 1..Len(trace) :
    trace[i].type = "returned" =>
      /\ trace[i].status = PENDING
      /\ trace[i].notionPageId = NoPage
      /\ Count("enqueued", trace[i].id) = 1
      /\ Count("returned", trace[i].id) = 1

IsSettlement(e) == e.type \in {"sync_completed", "sync_failed", "caught"}

IsReturn(e) == e.type = "returned"

\* the ids a step returns, in order
ReturnedNow ==
  LET new == SubSeq(trace', Len(trace) + 1, Len(trace'))
      rets == SelectSeq(new, IsReturn)
  IN [i \in 1..Len(rets) |-> rets[i].id]

EnqueueReturnsAtOnce ==
  /\ ReturnedNow = [i \in 1..(nextId' - nextId) |-> nextId + i]
  /\ nextId' > nextId =>
       /\ \A i \in Added : ~IsSettlement(trace'[i])
       /\ inflight \subseteq inflight'
       /\ \A id \in (nextId + 1)..nextId' :
            InQueue(id)' \/ InFlight(id)'

FailureIsReported ==
  \A f \in inflight :
    CreateRejects(f) =>
      /\ records'[f.item.id].syncError # NoError
      /\ Count("returned", f.item.id)' = 1
      /\ f.item.retryCount >= f.item.maxRetries =>
           /\ records'[f.item.id].status = FAILED
           /\ Count("sync_failed", f.item.id)' = 1

C15_FireAndForget ==
  []ReturnedPending /\ [][EnqueueReturnsAtOnce /\ FailureIsReported]_vars

\* a record returned Pending whose create calls then failed for good, and
\* one returned while a create call for another record was in flight
C15_Witness ==
  /\ \E id \in DOMAIN records :
       /\ Count("returned", id) = 1
       /\ Count("sync_failed", id) = 1
       /\ Count("create", id) = MaxRetries + 1
  /\ \E i \in 1..Len(trace) :
       /\ trace[i].type = "returned"
       /\ Count("create", trace[i].id) = 0

(***************************************************************************)
(* C12  Batch partial success.                                             *)
(***************************************************************************)
\* the call made for a word ended with a translation
Succeeded(entry) == entry.pc \in {"resolved", "hit"}

\* the positions of the words whose translation succeeded, in input order
RECURSIVE SucceededFrom(_, _)
SucceededFrom(log, i) ==
  IF i > Len(log) THEN <<>>
  ELSE (IF Succeeded(log[i]) THEN <<i>> ELSE <<>>) \o SucceededFrom(log, i + 1)

\* C12: a translateBatch call that has returned made one translateWord call
\* for every word of its input, in input order, whether or not earlier
\* words failed; the array it returned holds exactly the results of the
\* calls that succeeded, in input order.
C12_BatchPartialSuccess ==
  batch.pc = "returned" =>
    LET ok == SucceededFrom(batch.log, 1)
    IN /\ Len(batch.log) = Len(batch.words)
       /\ \A i \in 1..Len(batch.log) : batch.log[i].text = batch.words[i].text
       /\ Len(batch.translations) = Len(ok)
       /\ \A k \in 1..Len(ok) :
            batch.translations[k] = batch.log[ok[k]].result

\* [w1 ok, w2 fails, w3 ok] has returned [result(w1), result(w3)]
C12_Witness ==
  /\ batch.pc = "returned"
  /\ Len(batch.words) = 3
  /\ [i \in 1..3 |-> batch.log[i].pc] = <<"resolved", "rejected", "resolved">>
  /\ [k \in 1..2 |-> batch.translations[k].text] = <<<<"H", "i">>, <<"h", "i">>>>

(***************************************************************************)
(* C14  Publish reaches every subscriber in order.                         *)
(***************************************************************************)
\* the events the translation service has emitted, call by call
TranslationEvents ==
  UNION {Range(cl.events) : cl \in calls \cup {last}}

\* the events the sync service has emitted
SyncEvents == {e \in Range(trace) : e.type \in {"sync_started", "sync_completed", "sync_failed"}}

\* the notification invoked exactly the callbacks subscribed when it
\* started, each once, in subscription order
ReachedAll(e) == e.invoked = e.before

\* C14: for every event either service emitted, the callbacks invoked are
\* exactly the callbacks that were subscribed when the notification started,
\* each once and in subscription order, whatever the callbacks do.
C14_PublishReachesAll ==
  \A e \in SyncEvents \cup TranslationEvents : ReachedAll(e)

(***************************************************************************)
(* C13  Event isolation.                                                   *)
(***************************************************************************)
\* the callbacks subscribed after position i when e was emitted
Later(e, i) == [j \in 1..(Len(e.before) - i) |-> e.before[i + j]]

\* every subscriber behind a subscriber that threw received the event
ReachedBehindThrow(e) ==
  \A i \in 1..Len(e.before) :
    e.before[i].does = "throws" =>
      \A j \in 1..Len(Later(e, i)) :
        \E k \in 1..Len(e.invoked) : e.invoked[k] = Later(e, i)[j]

\* C13: whenever a subscriber throws while handling an event of either
\* service, every later subscriber still receives that event.
C13_EventIsolation ==
  \A e \in SyncEvents \cup TranslationEvents : ReachedBehindThrow(e)

\* the same for the notifications in which no callback unsubscribes
C13_ThrowAlone ==
  \A e \in SyncEvents \cup TranslationEvents :
    (\A i \in 1..Len(e.before) : e.before[i].does # "leaves") => ReachedBehindThrow(e)

(***************************************************************************)
(* C21  retryFailedItems.                                                  *)
(***************************************************************************)
\* a retryFailedItems call that reset at least one counter
Rearms == rearms' # rearms

\* the pending list as the claim says retryFailedItems leaves it: the same
\* items in the same order, the counter 0 for those that had reached
\* maxRetries and untouched for the others
Rearmed(q) ==
  [i \in 1..Len(q) |->
     [id |-> q[i].id, maxRetries |-> q[i].maxRetries,
      retryCount |-> IF q[i].retryCount = q[i].maxRetries THEN 0
                     ELSE q[i].retryCount]]

\* the record was finalized as Failed and is out of the queue
TerminallyFailed(id) == Left(id) /\ Count("sync_failed", id) > 0

\* C21: a retryFailedItems call that resets a counter leaves the pending
\* list with the same items in the same order, retryCount 0 for exactly the
\* items that had reached maxRetries and unchanged for the others; with a
\* drain active it starts none (the in-flight item, the flag, the records
\* and the effects are unchanged), with none active it starts one on the
\* head of that list; the ids it re-arms are ids of waiting items, and a
\* record that left the queue as Failed stays out of it, unchanged.
RearmStep ==
  Rearms =>
    /\ rearmed' = rearmed \cup
         {syncQueue[i].id : i \in {j \in 1..Len(syncQueue) :
                                    syncQueue[j].retryCount = syncQueue[j].maxRetries}}
    /\ IF isProcessing
       THEN /\ syncQueue' = Rearmed(syncQueue)
            /\ UNCHANGED <<isProcessing, inflight, records, trace>>
       ELSE /\ isProcessing'
            /\ syncQueue' = Tail(Rearmed(syncQueue))
            /\ {f.item : f \in inflight'} = {Head(Rearmed(syncQueue))}
    /\ \A id \in DOMAIN records :
         TerminallyFailed(id) =>
           /\ id \notin rearmed' \ rearmed
           /\ records'[id] = records[id]
           /\ \A i \in 1..Len(syncQueue') : syncQueue'[i].id # id
           /\ \A f \in inflight' : f.item.id # id

C21_RetryFailedItems == [][RearmStep]_vars

\* an item that had used up its retries waits with a fresh counter while
\* another record has already been finalized as Failed
C21_WitnessTerminal ==
  /\ isProcessing
  /\ \E i \in 1..Len(syncQueue) :
       syncQueue[i].id \in rearmed /\ syncQueue[i].retryCount = 0
  /\ \E id \in DOMAIN records : TerminallyFailed(id) /\ id \notin rearmed

\* beside the re-armed item another item waits with the count of its
\* failures
C21_Witness ==
  /\ isProcessing
  /\ \E i, j \in 1..Len(syncQueue) :
       /\ syncQueue[i].id \in rearmed /\ syncQueue[i].retryCount = 0
       /\ syncQueue[j].id \notin rearmed /\ syncQueue[j].retryCount > 0

(***************************************************************************)
(* C22  Per-attempt ordering in the sync queue.                            *)
(***************************************************************************)
\* the create call at position i of the trace comes right after the
\* sync_started event of the same record
StartedBeforeCreate(i) ==
  /\ i > 1
  /\ trace[i - 1].type = "sync_started"
  /\ trace[i - 1].id = trace[i].id

\* a terminal event of a record comes after a sync_started of that record
StartedBeforeTerminal(i) ==
  ReachedCreate(trace[i].id) =>
    \E j \in 1..(i - 1) : trace[j].type = "sync_started" /\ trace[j].id = trace[i].id

\* C22: the record every sync_started event carries has status Syncing;
\* every create call comes right after the sync_started event of its
\* attempt, and every terminal event of a record after a sync_started of it.
C22_AttemptOrdering ==
  \A i \in 1..Len(trace) :
    /\ trace[i].type = "sync_started" => trace[i].status = SYNCING
    /\ trace[i].type = "create" => StartedBeforeCreate(i)
    /\ IsTerminal(trace[i]) => StartedBeforeTerminal(i)

\* the order of the events and calls alone, without the status carried
C22_OrderAlone ==
  \A i \in 1..Len(trace) :
    /\ trace[i].type = "create" => StartedBeforeCreate(i)
    /\ IsTerminal(trace[i]) => StartedBeforeTerminal(i)

(***************************************************************************)
(* C23  translateBatch is strictly serial.                                 *)
(***************************************************************************)
\* the words of the running batch before position pos have settled, in
\* input order
SettledBefore(pos) ==
  /\ Len(batch.log) = pos - 1
  /\ \A i \in 1..(pos - 1) :
       /\ batch.log[i].text = batch.words[i].text
       /\ batch.log[i].pc \in {"resolved", "hit", "rejected"}

\* C23: while a translateBatch call runs, exactly one translateWord call of
\* it is suspended on a provider; that call is for the word at the current
\* position, and the calls for all the words before it have settled, in
\* input order; once the batch has returned no call of it is in flight.
C23_BatchSerial ==
  /\ batch.pc = "running" =>
       /\ Cardinality(calls) = 1
       /\ \A cl \in calls :
            /\ cl.id = batch.awaiting
            /\ cl.word = batch.words[batch.pos]
            /\ cl.pc \in {"detect", "preferred", "loop"}
       /\ SettledBefore(batch.pos)
  /\ batch.pc = "returned" =>
       calls = {} /\ SettledBefore(Len(batch.words) + 1)

\* the request for the third word is in flight after the first word's
\* request resolved and the second's rejected
C23_Witness ==
  /\ batch.pc = "running"
  /\ batch.pos = 3
  /\ batch.log[1].pc = "resolved"
  /\ batch.log[2].pc = "rejected"
  /\ calls # {}

(***************************************************************************)
(* C24  translateWord event sequence on a cache miss.                      *)
(***************************************************************************)
\* a translateWord call that missed the cache is suspended on a provider
\* with translation_started as its only event
StartedOnce ==
  \A cl \in calls :
    cl.events = <<Event("translation_started", NoTranslation, NoMessage)>>

\* a call that missed the cache returns in this step
MissReturns == Returned /\ last'.lookup # "hit"

\* the call that missed emitted translation_started and then one event that
\* tells its outcome; a result is in the cache under the request's key with
\* accessCount 1, and was there when translation_completed was emitted; a
\* failure leaves the cache as it was
MissSequence ==
  MissReturns =>
    /\ Len(last'.events) = 2
    /\ last'.events[1] = Event("translation_started", NoTranslation, NoMessage)
    /\ IF last'.pc = "resolved"
       THEN /\ last'.events[2] =
                 Event("translation_completed", last'.result, NoMessage)
            /\ \E i \in 1..Len(cache') :
                 /\ cache'[i].key = last'.key
                 /\ cache'[i].translation = last'.result
                 /\ cache'[i].accessCount = 1
            /\ last'.seen[2] = 1
       ELSE /\ last'.pc = "rejected"
            /\ last'.events[2] =
                 Event("translation_failed", NoTranslation, last'.error)
            /\ cache' = cache

\* the steps of clearCache
Cleared == cache' = <<>> /\ nCalls' = nCalls /\ calls' = calls /\ last' = last

\* a cache hit counts the access
HitCounted == nCalls' = nCalls + 1 /\ Begun.lookup = "hit"

\* the lookup of a call that misses removed the expired entry it found
ExpiredRemoved ==
  /\ nCalls' = nCalls + 1
  /\ Begun.lookup = "expired"
  /\ Entries(cache') = {e \in Entries(cache) : e.key # Begun.key}

(***************************************************************************)
(* C24 (as stated): a translateWord call that misses the cache emits       *)
(* exactly one translation_started and then exactly one of                 *)
(* translation_completed (it resolves) or translation_failed (it rejects   *)
(* with that failure); such a call modifies the cache only when it         *)
(* succeeds, inserting the result under the request's key with accessCount *)
(* 1 before translation_completed is emitted.                              *)
(***************************************************************************)
CacheOnlyOnSuccess ==
  cache' # cache =>
    \/ MissReturns /\ last'.pc = "resolved"
    \/ HitCounted
    \/ Cleared

C24_MissSequence ==
  []StartedOnce /\ [][MissSequence /\ CacheOnlyOnSuccess]_vars

(***************************************************************************)
(* C24 (amended): the same, except that the lookup of a call that misses   *)
(* because the entry under its key has expired removes that entry, whether *)
(* the call then succeeds or fails.                                        *)
(***************************************************************************)
CacheOnSuccessOrExpiry ==
  cache' # cache =>
    \/ MissReturns /\ last'.pc = "resolved"
    \/ ExpiredRemoved
    \/ HitCounted
    \/ Cleared

C24_MissSequenceExpiry ==
  []StartedOnce /\ [][MissSequence /\ CacheOnSuccessOrExpiry]_vars

\* a call found its entry expired, removed it and then failed, next to a
\* call that succeeded and is cached
C24_Witness ==
  /\ last.lookup = "expired"
  /\ last.pc = "rejected"
  /\ Len(last.events) = 2
  /\ IndexOf(cache, last.key) = 0
  /\ \E i \in 1..Len(cache) : cache[i].accessCount = 1

(***************************************************************************)
(* C25  Drain termination.                                                 *)
(***************************************************************************)
\* the drain has ended: nothing waits, nothing is in flight, the flag is
\* down and every record is Synced or Failed
Drained ==
  /\ syncQueue = <<>>
  /\ inflight = {}
  /\ ~isProcessing
  /\ \A id \in DOMAIN records : records[id].status \in {SYNCED, FAILED}

\* the create calls for a record are at most the first attempt and
\* maxRetries retries
AttemptsBounded ==
  \A id \in DOMAIN records : Count("create", id) <= MaxRetries + 1

\* C25: whatever records are enqueued (finitely many) and whatever the
\* outcomes of the create calls, if every call settles then from every state
\* the drain comes to its end, with the pending list empty, the flag false
\* and every record Synced or Failed; no record has more than
\* maxRetries + 1 create calls.
C25_DrainTermination == []AttemptsBounded /\ []<>Drained

\* the drain has ended with one record Synced after a failure and one
\* Failed after all its attempts
C25_Witness ==
  /\ Drained
  /\ \E id \in DOMAIN records :
       records[id].status = FAILED /\ Count("create", id) = MaxRetries + 1
  /\ \E id \in DOMAIN records :
       records[id].status = SYNCED /\ Count("create", id) > 1

(***************************************************************************)
(* C26  Cache removal paths.                                               *)
(***************************************************************************)
\* the keys whose entry leaves the cache in this step (an entry that
\* Map.set overwrites under its key has not left)
Leaving == Keys(cache) \ Keys(cache')

\* (a) the lookup of the call begun in this step found the entry expired
LeavesExpired ==
  /\ nCalls' = nCalls + 1
  /\ Leaving = {Begun.key}
  /\ \E i \in 1..Len(cache) :
       cache[i].key = Begun.key /\ now - cache[i].timestamp > CacheExpiryTime

\* (b) the sweep of an insertion performed at size >= maxCacheSize
LeavesEvicted ==
  /\ Returned
  /\ last'.pc = "resolved"
  /\ Len(cache) >= MaxCacheSize
  /\ Len(last'.swept) = Tenth(Len(cache))
  /\ Leaving \subseteq {e.key : e \in Range(last'.swept)}

\* (c) clearCache or destroy
LeavesCleared == cache' = <<>> /\ nCalls' = nCalls /\ calls' = calls /\ last' = last

RemovalStep ==
  Leaving # {} => LeavesExpired \/ LeavesEvicted \/ LeavesCleared

KeyUniqueness ==
  \A i, j \in 1..Len(cache) : cache[i].key = cache[j].key => i = j

\* C26: an entry leaves the cache only in a lookup that finds it expired,
\* in the sweep of an insertion performed at size >= maxCacheSize, or in
\* clearCache / destroy (so not in a cache hit, a failed translation or an
\* insertion below the capacity); no two entries have the same key.
C26_RemovalPaths == []KeyUniqueness /\ [][RemovalStep]_vars

\* an entry has been swept at an insertion, and the lookup of a later call
\* has removed an expired entry
C26_Witness ==
  /\ last.swept # <<>>
  /\ \E cl \in calls : cl.lookup = "expired"

(***************************************************************************)
(* C29  No request coalescing.                                             *)
(***************************************************************************)
\* the second of the two calls began while the first was suspended
Overlapped(a, b) == a.id \in b.open \/ b.id \in a.open

\* the call asked a provider for the translation itself
OwnRequest(cl) == Translated(cl) # <<>>

\* a call begun while a call for the same key is suspended, the cache
\* holding no entry for the key, misses and goes to the provider itself,
\* and the call that was suspended stays as it is
NotJoined ==
  nCalls' = nCalls + 1 =>
    \A a \in calls :
      (a.key = Begun.key /\ IndexOf(cache, a.key) = 0) =>
        /\ Begun.lookup = "absent"
        /\ apis # <<>> => Begun \in calls' /\ Len(Begun.tried) = 1
        /\ a \in calls'

\* the second of two overlapping calls for one key succeeds right after
\* the first: each has its own result from its own provider call, and the
\* cache holds one entry for the key, with the result of the second and
\* accessCount 1
LastWriterWins ==
  (/\ Returned
   /\ last.pc = "resolved"
   /\ last'.pc = "resolved"
   /\ last.key = last'.key
   /\ Overlapped(last, last')) =>
     /\ OwnRequest(last) /\ OwnRequest(last')
     /\ last.result.id = last.id /\ last'.result.id = last'.id
     /\ Cardinality({i \in 1..Len(cache') : cache'[i].key = last'.key}) = 1
     /\ \A i \in 1..Len(cache') :
          cache'[i].key = last'.key =>
            cache'[i].translation = last'.result /\ cache'[i].accessCount = 1

\* C29: a translateWord call that starts while another call for the same
\* key is suspended on its provider is not joined to it: both miss and each
\* makes its own provider call; when both have succeeded the cache holds
\* exactly one entry for the key, the result of the call that finished
\* last, with accessCount 1.
C29_NoCoalescing == [][NotJoined /\ LastWriterWins]_vars

\* two overlapping calls for one key have both succeeded: the call that
\* began second finished last and found the result of the first in the cache
C29_Witness ==
  /\ last.pc = "resolved"
  /\ last.replaced \in last.open
  /\ \E i \in 1..Len(cache) :
       /\ cache[i].key = last.key
       /\ cache[i].translation.id = last.id
       /\ cache[i].accessCount = 1

(***************************************************************************)
(* C27  No duplicate remote pages.                                         *)
(***************************************************************************)
\* the record's create call succeeded, or the record was finalized as
\* Failed, at position i of the trace
Settled(i) == trace[i].type \in {"sync_completed", "sync_failed"}

\* C27: for each record at most one create call succeeds, and no create
\* call is issued for a record after one succeeded for it or after it was
\* finalized as Failed, whatever the interleaving of syncRecord, syncBatch,
\* retryFailedItems, clearQueue, timer ticks and create outcomes.
C27_NoDuplicatePages ==
  \A id \in DOMAIN records :
    /\ Count("sync_completed", id) <= 1
    /\ \A i \in 1..Len(trace) :
         (Settled(i) /\ trace[i].id = id) =>
           \A j \in (i + 1)..Len(trace) :
             ~(trace[j].type = "create" /\ trace[j].id = id)

\* one record has its page after a failed attempt, the other was finalized
\* as Failed after a retryFailedItems call re-armed it
C27_Witness ==
  /\ \E id \in DOMAIN records :
       Count("sync_completed", id) = 1 /\ Count("create", id) > 1
  /\ \E id \in rearmed :
       Count("sync_failed", id) = 1 /\ Count("create", id) > MaxRetries + 1

(***************************************************************************)
(* C28  No stranded work.                                                  *)
(***************************************************************************)
\* C28: whenever control is back in the event loop with a non-empty
\* pending list, a drain is active: isProcessing is true and the loop is
\* suspended on an item; this holds with the timer never firing as well.
C28_NoStrandedWork ==
  Len(syncQueue) > 0 => isProcessing /\ inflight # {}

\* an item re-armed by retryFailedItems waits while the drain is suspended
\* on another item
C28_Witness ==
  /\ isProcessing
  /\ \E i \in 1..Len(syncQueue) :
       syncQueue[i].id \in rearmed /\ syncQueue[i].retryCount = 0
  /\ \E f \in inflight : f.item.retryCount > 0

(***************************************************************************)
(* C30  clearQueue during a drain does not discard the in-flight item.     *)
(***************************************************************************)
\* the pending list once the catch block has pushed the failed item
Pushed(f) == Append(syncQueue, [f.item EXCEPT !.retryCount = @ + 1])

\* the create call in flight fails, with retries left, after a clearQueue
\* that emptied the list: the item is pushed into the list, which is
\* thereby non-empty, and the loop goes on with the head of that list; when
\* nothing was enqueued since, that head is the item itself, attempted again
RetriedAfterClear ==
  \A f \in inflight :
    (/\ dropped # {}
     /\ CreateRejects(f)
     /\ f.item.retryCount < f.item.maxRetries) =>
       /\ isProcessing'
       /\ syncQueue' = Tail(Pushed(f))
       /\ inflight' = {[item |-> Head(Pushed(f)), call |-> "create"]}
       /\ syncQueue = <<>> =>
            /\ InFlight(f.item.id)'
            /\ Count("create", f.item.id)' = Count("create", f.item.id) + 1

\* C30: when clearQueue was called while an item's create call was in
\* flight and that call then fails with retry budget remaining, the item is
\* pushed into the pending list (empty unless something was enqueued since)
\* and attempted again.
C30_InFlightSurvivesClear == [][RetriedAfterClear]_vars

\* record 2 was dropped, never attempted, while record 1 was in flight; the
\* create call for record 1 then failed and record 1 is attempted again
C30_Witness ==
  /\ dropped = {2}
  /\ Count("create", 2) = 0
  /\ syncQueue = <<>>
  /\ \E f \in inflight : f.item.id = 1 /\ f.item.retryCount = 1
  /\ Count("create", 1) = 2
  /\ \E i \in Positions("enqueued", 2), j \in Positions("caught", 1) : i < j

====
